---- MODULE Spec2Model ----
(***************************************************************************)
(* finder (src/main.rs): reads a list of base names, indexes every         *)
(* non-directory entry under a source tree by base name, and copies (or,   *)
(* in dry-run mode, reports) every indexed file whose name is in the list  *)
(* into an existing, empty target directory.                               *)
(*                                                                         *)
(* The file system is the environment: the list file, the source tree and  *)
(* the target directory are chosen in Init and only the program changes    *)
(* them afterwards.  One behaviour is a sequence of runs of main() over    *)
(* that file system with the same arguments.                               *)
(***************************************************************************)
EXTENDS Integers, Sequences, FiniteSets, TLC

\* ------------------------------------------------------------------ bounds
MaxFiles == 2      \* entries under the source directory
MaxLines == 2      \* lines of the list file
MaxRuns  == 2      \* runs of main() over the same file system

\* Base names of files.  "" is a blank line of the list file; no directory
\* entry has the empty name.
Names == {"a", "b"}
Lines == Names \cup {""}

\* What a path names.  "invalid" is a path path::absolute rejects.
PathKinds == {"invalid", "missing", "file", "dir"}
ListKinds == {"missing", "unreadable", "ok"}

\* A source entry as the walk and fs::copy see it:
\*   ok      - a regular file, readable
\*   nocopy  - a non-directory entry that fs::copy cannot copy
\*   walkerr - the walk yields Err for it (unreadable entry or subdirectory)
\*   dir     - a directory
EntryKinds == {"ok", "nocopy", "walkerr", "dir"}
Entries == [name : Names, kind : EntryKinds]

VARIABLES
    \* arguments and file system (Args, lines 31-47)
    listKind,          \* what --file_list names
    lines,             \* the lines of the list file
    srcKind,           \* what --source_dir names
    tree,              \* the entries under the source directory; path i is tree[i]
    tgtKind,           \* what --target_dir names
    targetInSource,    \* the target directory lies under the source directory
    disable_dry_run,   \* --disable-dry-run
    target,            \* the target directory: base name -> content
    \* one run of main()
    pc,                \* position in main()
    file_names,        \* Vec of the lines read (line 69)
    source_files,      \* HashMap base name -> full path (line 94)
    walked,            \* entries the WalkDir iterator has yielded so far
    remaining,         \* keys source_files.into_iter() has still to yield
    \* what the run has printed and done, in order
    checked,           \* the preflight checks evaluated
    msg,               \* the ERROR message printed: 0 none, else the check
    reason,            \* where the run panicked, "" if it has not
    inserted,          \* the paths of the "Inserting" lines (line 104)
    acted,             \* the copy / dry-run notices (lines 140, 143)
    \* across runs
    run,               \* number of the current run
    initTarget,        \* target at the start of the current run
    prev               \* outcome of the previous run

fsvars  == <<listKind, lines, srcKind, tree, tgtKind, targetInSource, disable_dry_run>>
runvars == <<pc, file_names, source_files, walked, remaining, checked, msg, reason,
             inserted, acted>>
vars    == <<fsvars, target, runvars, run, initTarget, prev>>

\* ----------------------------------------------------------------- helpers
RECURSIVE SeqsUpTo(_, _)
SeqsUpTo(S, n) ==
    IF n = 0 THEN {<<>>}
    ELSE LET shorter == SeqsUpTo(S, n - 1)
         IN  shorter \cup {Append(s, x) : s \in {t \in shorter : Len(t) = n - 1}, x \in S}

Range(s) == {s[i] : i \in DOMAIN s}

EmptyMap == [n \in {} |-> 0]

\* Position of a base name in a fixed enumeration of Names.
NameIdx(n) == IF n = "a" THEN 1 ELSE 2
NameAt(i)  == IF i = 1 THEN "a" ELSE "b"

\* Paths: i > 0 is the source entry tree[i]; -NameIdx(n) is the file n of the
\* target directory, met by the walk when the target lies under the source.
TargetPath(n) == 0 - NameIdx(n)

\* entry.file_name() (line 101)
FileName(p) == IF p > 0 THEN tree[p].name ELSE NameAt(0 - p)

EntryKind(p) == IF p > 0 THEN tree[p].kind ELSE "ok"

\* Content of the file at a path.  The i-th source file holds content i, so
\* two source files never hold the same bytes; 0 is a file the target held
\* before the first run.
Content(p) == IF p > 0 THEN p ELSE target[NameAt(0 - p)]

\* What a failed fs::copy may leave: a truncated copy.
Partial(p) == 0 - p

\* Path::exists (lines 57, 84, 117)
Exists(kind) == kind # "missing"

\* path::absolute (lines 77, 110)
AbsoluteOk(kind) == kind # "invalid"

\* Vec::contains (line 137)
ContainsFirst(v, x) == v # <<>> /\ v[1] = x
Contains(v, x) == \E i \in DOMAIN v : v[i] = x

\* HashMap::insert (line 105): the new value replaces the one under the key.
InsertKeepFirst(map, k, v) ==
    [x \in DOMAIN map \cup {k} |-> IF x \in DOMAIN map THEN map[x] ELSE v]
Insert(map, k, v) == [x \in DOMAIN map \cup {k} |-> IF x = k THEN v ELSE map[x]]

\* ReadDir::next().is_some() on the target directory (line 126)
NotEmptyInverted(dir) == DOMAIN dir = {}
NotEmpty(dir) == DOMAIN dir # {}

\* What WalkDir::new(absolute_source) yields (line 96): the entries under a
\* directory, the files of the target directory among them when it lies
\* under the source; the path itself when it names a file.
WalkEntries ==
    (1 .. Len(tree))
        \cup (IF targetInSource THEN {TargetPath(n) : n \in DOMAIN target} ELSE {})

\* .filter_map(Result::ok).filter(|e| !e.file_type().is_dir()) (lines 98-99)
Yielded(p) == EntryKind(p) # "walkerr" /\ EntryKind(p) # "dir"

\* fs::copy(full_path, target_path) succeeds (line 141)
CopyOk(p) == EntryKind(p) = "ok"

\* A finished fs::copy: target_path = <target>/<file_name> holds the bytes
\* of full_path (lines 138, 141).
CopyFileTruncated(dir, name, p) == Insert(dir, name, Partial(p))
CopyFile(dir, name, p) == Insert(dir, name, Content(p))

\* let disable_dry_run = args.disable_dry_run (line 135), tested at line 139
ApplyAlways == TRUE
Apply == disable_dry_run

\* ------------------------------------------------------------------- Init
\* Entries are listed in a fixed order of (name, kind): path numbers are
\* labels, and the walk visits the entries in any order.
KindIdx(k) == IF k = "ok" THEN 1 ELSE IF k = "nocopy" THEN 2
              ELSE IF k = "walkerr" THEN 3 ELSE 4
Rank(e) == 4 * NameIdx(e.name) + KindIdx(e.kind)
Listed(t) == \A i \in 1 .. Len(t) - 1 : Rank(t[i]) <= Rank(t[i + 1])

Trees(kind) ==
    IF kind = "dir" THEN {t \in SeqsUpTo(Entries, MaxFiles) : Listed(t)}
    ELSE IF kind = "file" THEN {<<[name |-> n, kind |-> k]>> : n \in Names, k \in {"ok", "nocopy"}}
    ELSE {<<>>}

NoRun == [outcome |-> "none", apply |-> FALSE, copied |-> 0]

Init ==
    /\ listKind \in ListKinds
    /\ lines \in (IF listKind = "ok" THEN SeqsUpTo(Lines, MaxLines) ELSE {<<>>})
    /\ srcKind \in PathKinds
    /\ tree \in Trees(srcKind)
    /\ tgtKind \in PathKinds
    /\ target \in (IF tgtKind = "dir" THEN {EmptyMap, "a" :> 0} ELSE {EmptyMap})
    /\ targetInSource \in (IF srcKind = "dir" /\ tgtKind = "dir" THEN BOOLEAN ELSE {FALSE})
    /\ disable_dry_run \in BOOLEAN
    /\ pc = "check_list"
    /\ file_names = <<>>
    /\ source_files = EmptyMap
    /\ walked = {}
    /\ remaining = {}
    /\ checked = <<>>
    /\ msg = 0
    /\ reason = ""
    /\ inserted = <<>>
    /\ acted = <<>>
    /\ run = 1
    /\ initTarget = target
    /\ prev = NoRun

\* ---------------------------------------------------------------- actions
\* println!("ERROR: ..."); return;
Halt(check) ==
    /\ pc' = "halted"
    /\ msg' = check

\* expect / unwrap / panic!
Abort(where) ==
    /\ pc' = "aborted"
    /\ reason' = where

\* lines 56-63
CheckList ==
    /\ pc = "check_list"
    /\ checked' = Append(checked, 1)
    /\ IF Exists(listKind)
       THEN pc' = "read_list" /\ UNCHANGED msg
       ELSE Halt(1)
    /\ UNCHANGED <<fsvars, target, file_names, source_files, walked, remaining, reason,
                   inserted, acted, run, initTarget, prev>>

\* lines 65-73
ReadList ==
    /\ pc = "read_list"
    /\ IF listKind = "ok"
       THEN pc' = "abs_source" /\ file_names' = lines /\ UNCHANGED reason
       ELSE Abort("read_list") /\ UNCHANGED file_names
    /\ UNCHANGED <<fsvars, target, source_files, walked, remaining, checked, msg,
                   inserted, acted, run, initTarget, prev>>

\* lines 75-81
AbsSource ==
    /\ pc = "abs_source"
    /\ IF AbsoluteOk(srcKind)
       THEN pc' = "check_source" /\ UNCHANGED reason
       ELSE Abort("abs_source")
    /\ UNCHANGED <<fsvars, target, file_names, source_files, walked, remaining, checked,
                   msg, inserted, acted, run, initTarget, prev>>

\* lines 83-90
CheckSourceNoReturn ==
    /\ pc = "check_source"
    /\ checked' = Append(checked, 2)
    /\ pc' = "walk"
    /\ UNCHANGED <<fsvars, target, file_names, source_files, walked, remaining, msg,
                   reason, inserted, acted, run, initTarget, prev>>

CheckSource ==
    /\ pc = "check_source"
    /\ checked' = Append(checked, 2)
    /\ IF Exists(srcKind)
       THEN pc' = "walk" /\ UNCHANGED msg
       ELSE Halt(2)
    /\ UNCHANGED <<fsvars, target, file_names, source_files, walked, remaining, reason,
                   inserted, acted, run, initTarget, prev>>

\* lines 96-106, one entry of the walk
WalkStepPropagate ==
    /\ pc = "walk"
    /\ \E p \in WalkEntries \ walked :
        /\ walked' = walked \cup {p}
        /\ IF EntryKind(p) = "walkerr"
           THEN Abort("walk") /\ UNCHANGED <<inserted, source_files>>
           ELSE IF Yielded(p)
           THEN /\ inserted' = Append(inserted, p)
                /\ source_files' = Insert(source_files, FileName(p), p)
                /\ UNCHANGED <<pc, reason>>
           ELSE UNCHANGED <<inserted, source_files, pc, reason>>
    /\ UNCHANGED <<fsvars, target, file_names, remaining, checked, msg,
                   acted, run, initTarget, prev>>

WalkStep ==
    /\ pc = "walk"
    /\ \E p \in WalkEntries \ walked :
        /\ walked' = walked \cup {p}
        /\ IF Yielded(p)
           THEN /\ inserted' = Append(inserted, p)
                /\ source_files' = Insert(source_files, FileName(p), p)
           ELSE UNCHANGED <<inserted, source_files>>
    /\ UNCHANGED <<fsvars, target, pc, file_names, remaining, checked, msg, reason,
                   acted, run, initTarget, prev>>

\* lines 96-106, the iterator is exhausted
WalkEnd ==
    /\ pc = "walk"
    /\ WalkEntries \ walked = {}
    /\ pc' = "abs_target"
    /\ UNCHANGED <<fsvars, target, file_names, source_files, walked, remaining, checked,
                   msg, reason, inserted, acted, run, initTarget, prev>>

\* lines 108-114
AbsTarget ==
    /\ pc = "abs_target"
    /\ IF AbsoluteOk(tgtKind)
       THEN pc' = "check_target" /\ UNCHANGED reason
       ELSE Abort("abs_target")
    /\ UNCHANGED <<fsvars, target, file_names, source_files, walked, remaining, checked,
                   msg, inserted, acted, run, initTarget, prev>>

\* lines 116-123
CheckTarget ==
    /\ pc = "check_target"
    /\ checked' = Append(checked, 3)
    /\ IF Exists(tgtKind)
       THEN pc' = "check_empty" /\ UNCHANGED msg
       ELSE Halt(3)
    /\ UNCHANGED <<fsvars, target, file_names, source_files, walked, remaining, reason,
                   inserted, acted, run, initTarget, prev>>

\* lines 125-135: read_dir().unwrap() panics on a path that is no directory
CheckEmpty ==
    /\ pc = "check_empty"
    /\ IF tgtKind # "dir"
       THEN Abort("read_dir") /\ UNCHANGED <<checked, msg, remaining>>
       ELSE /\ checked' = Append(checked, 4)
            /\ UNCHANGED reason
            /\ IF NotEmpty(target)
               THEN Halt(4) /\ UNCHANGED remaining
               ELSE pc' = "copy" /\ remaining' = DOMAIN source_files /\ UNCHANGED msg
    /\ UNCHANGED <<fsvars, target, file_names, source_files, walked, inserted, acted,
                   run, initTarget, prev>>

Notice(name, p, what) == [name |-> name, path |-> p, what |-> what]

\* fs::copy(..).expect("Cannot copy file.") on a copy that fails (line 141):
\* the run panics; the target may be left with a truncated file.
CopyFailContinue(name, full_path) ==
    /\ acted' = Append(acted, Notice(name, full_path, "failed"))
    /\ UNCHANGED <<pc, reason>>
    /\ target' \in {target, Insert(target, name, Partial(full_path))}

CopyFail(name, full_path) ==
    /\ acted' = Append(acted, Notice(name, full_path, "failed"))
    /\ Abort("copy")
    /\ target' \in {target, Insert(target, name, Partial(full_path))}

\* lines 136-146, one (file_name, full_path) of the HashMap, in any order
CopyStep ==
    /\ pc = "copy"
    /\ \E name \in remaining :
        LET full_path == source_files[name] IN
        /\ remaining' = remaining \ {name}
        /\ IF ~Contains(file_names, name)
           THEN UNCHANGED <<pc, reason, acted, target>>
           ELSE IF ~Apply
           THEN /\ acted' = Append(acted, Notice(name, full_path, "dry"))
                /\ UNCHANGED <<pc, reason, target>>
           ELSE IF CopyOk(full_path)
           THEN /\ acted' = Append(acted, Notice(name, full_path, "copied"))
                /\ target' = CopyFile(target, name, full_path)
                /\ UNCHANGED <<pc, reason>>
           ELSE CopyFail(name, full_path)
    /\ UNCHANGED <<fsvars, file_names, source_files, walked, checked, msg, inserted,
                   run, initTarget, prev>>

\* line 147
CopyEnd ==
    /\ pc = "copy"
    /\ remaining = {}
    /\ pc' = "done"
    /\ UNCHANGED <<fsvars, target, file_names, source_files, walked, remaining, checked,
                   msg, reason, inserted, acted, run, initTarget, prev>>

Copied == {i \in DOMAIN acted : acted[i].what = "copied"}

\* The tool is run again with the same arguments.  A run that stopped before
\* the copy loop leaves the file system as it found it, so running again
\* repeats it: only a run that reached the copy loop is followed by another.
Rerun ==
    /\ pc = "done" \/ (pc = "aborted" /\ reason = "copy")
    /\ run < MaxRuns
    /\ run' = run + 1
    /\ prev' = [outcome |-> pc, apply |-> disable_dry_run, copied |-> Cardinality(Copied)]
    /\ initTarget' = target
    /\ pc' = "check_list"
    /\ file_names' = <<>>
    /\ source_files' = EmptyMap
    /\ walked' = {}
    /\ remaining' = {}
    /\ checked' = <<>>
    /\ msg' = 0
    /\ reason' = ""
    /\ inserted' = <<>>
    /\ acted' = <<>>
    /\ UNCHANGED <<fsvars, target>>

Next ==
    \/ CheckList
    \/ ReadList
    \/ AbsSource
    \/ CheckSource
    \/ WalkStep
    \/ WalkEnd
    \/ AbsTarget
    \/ CheckTarget
    \/ CheckEmpty
    \/ CopyStep
    \/ CopyEnd
    \/ Rerun

Spec == Init /\ [][Next]_vars

\* ------------------------------------------------------------ properties
Terminated == pc \in {"done", "halted", "aborted"}

\* The preconditions of section 4.4, read off the file system at the start
\* of the current run.
Violated(check) ==
    IF check = 1 THEN listKind = "missing"
    ELSE IF check = 2 THEN srcKind = "missing"
    ELSE IF check = 3 THEN tgtKind = "missing"
    ELSE tgtKind = "dir" /\ DOMAIN initTarget # {}

LowestViolated ==
    IF \E k \in 1 .. 4 : Violated(k)
    THEN CHOOSE k \in 1 .. 4 : Violated(k) /\ \A j \in 1 .. (k - 1) : ~Violated(j)
    ELSE 0

ActedNames == {acted[i].name : i \in DOMAIN acted}

\* C1: in dry-run mode the target directory holds, in every state of every
\* run, exactly the entries and contents it held at the start.
C1_DryRunLeavesTarget ==
    ~disable_dry_run => target = initTarget

\* C1 witness: a dry run that completed and emitted a notice.
C1_Witness ==
    /\ ~disable_dry_run
    /\ pc = "done"
    /\ acted # <<>>

\* C2, as the result of a run: the target checks precede the indexing, so a
\* run that halts at the target-exists or the target-empty check has
\* inserted no source file into the index.
C2_ChecksPrecedeWork ==
    (pc = "halted" /\ msg \in {3, 4}) => (inserted = <<>> /\ source_files = EmptyMap)

\* C3: the checks are evaluated in the order 1, 2, 3, 4; the run halts at the
\* first that fails, with the message of the lowest-numbered violated
\* precondition, no later check evaluated and no notice or copy made; a run
\* that reaches the copy loop has no violated precondition.
C3_PreflightOrder ==
    /\ \E k \in 0 .. 4 : checked = [i \in 1 .. k |-> i]
    /\ \A i \in DOMAIN checked : Violated(checked[i]) => (i = Len(checked) /\ msg = checked[i])
    /\ msg # 0 =>
        /\ pc = "halted"
        /\ msg = LowestViolated
        /\ Len(checked) = msg
        /\ acted = <<>>
    /\ pc = "halted" => msg # 0
    /\ pc \in {"copy", "done"} => LowestViolated = 0

\* C3 witness: the source and the target are both missing and the run has
\* halted at the source check.
C3_Witness ==
    /\ pc = "halted"
    /\ msg = 2
    /\ tgtKind = "missing"

\* The precondition failures as C4 lists them.
PreconditionFails ==
    \/ listKind = "missing"
    \/ srcKind \in {"missing", "file"}
    \/ tgtKind \in {"missing", "file"}
    \/ DOMAIN initTarget # {}

\* C4, for a list file that can be read when it exists: a run with a failed
\* precondition ends by a message, never by a panic other than a
\* path-resolution failure, and leaves the target unchanged.
C4_CleanTermination ==
    (Terminated /\ PreconditionFails /\ listKind # "unreadable") =>
        /\ pc = "halted" \/ (pc = "aborted" /\ reason \in {"abs_source", "abs_target"})
        /\ target = initTarget

\* C5: the notices and copies are made for names that are both in the list
\* and in the index, with the indexed path, each name at most once and
\* nothing else copied; a run that completes has acted on every such name,
\* whatever the order, repetitions and blank lines of the list; the only
\* panic of the copy loop is a failed copy.
C5_ReconciledSet ==
    /\ \A i \in DOMAIN acted :
        /\ acted[i].name \in Range(lines) \cap DOMAIN source_files
        /\ acted[i].path = source_files[acted[i].name]
    /\ \A i, j \in DOMAIN acted : acted[i].name = acted[j].name => i = j
    /\ DOMAIN target \ DOMAIN initTarget \subseteq ActedNames
    /\ pc = "done" => ActedNames = Range(lines) \cap DOMAIN source_files
    /\ (pc = "aborted" /\ reason = "copy") =>
            (acted # <<>> /\ acted[Len(acted)].what = "failed")

\* C5 witness: a completed run that acted on a name, with a requested name
\* that is not indexed and an indexed name that is not requested.
C5_Witness ==
    /\ pc = "done"
    /\ acted # <<>>
    /\ Range(lines) \ DOMAIN source_files # {}
    /\ DOMAIN source_files \ Range(lines) # {}

\* The position in `inserted` of the last entry inserted under a base name.
LastInserted(n) ==
    CHOOSE i \in DOMAIN inserted :
        /\ FileName(inserted[i]) = n
        /\ \A j \in DOMAIN inserted : FileName(inserted[j]) = n => j <= i

\* C6: after every insertion the index holds one path per base name
\* inserted so far, the path of the last non-directory entry visited with
\* that name; every notice or copy for a name uses that path, and a name
\* gets at most one.
C6_LastWriteWins ==
    /\ \A i \in DOMAIN inserted : EntryKind(inserted[i]) # "dir"
    /\ DOMAIN source_files = {FileName(inserted[i]) : i \in DOMAIN inserted}
    /\ \A n \in DOMAIN source_files : source_files[n] = inserted[LastInserted(n)]
    /\ \A i \in DOMAIN acted : acted[i].path = inserted[LastInserted(acted[i].name)]
    /\ \A i, j \in DOMAIN acted : acted[i].name = acted[j].name => i = j

\* C6 witness: two files with the same requested base name were inserted and
\* the run has made its one notice or copy for that name.
C6_Witness ==
    /\ pc = "done"
    /\ \E i, j \in DOMAIN inserted :
        /\ i < j
        /\ FileName(inserted[i]) = FileName(inserted[j])
        /\ FileName(inserted[i]) \in ActedNames

\* C7: when an apply-mode run completes, the target directory holds one file
\* per requested name of the index and nothing else, each with the content
\* of the path the index holds for its name.
C7_ApplyResult ==
    (pc = "done" /\ disable_dry_run) =>
        /\ DOMAIN target = Range(lines) \cap DOMAIN source_files
        /\ \A n \in DOMAIN target : target[n] = Content(source_files[n])

\* C7 witness: an apply-mode run that completed with two files copied.
C7_Witness ==
    /\ pc = "done"
    /\ disable_dry_run
    /\ Cardinality(DOMAIN target) = 2

\* C8 as stated: after an apply-mode run that completed normally, the next
\* run with the same arguments always halts at the target-empty check and
\* copies nothing.
C8_SecondRunAlwaysHalts ==
    (run > 1 /\ prev.outcome = "done" /\ prev.apply /\ Terminated) =>
        /\ pc = "halted"
        /\ msg = 4
        /\ acted = <<>>

\* C8 amended: after an apply-mode run that completed normally and copied at
\* least one file, the next run with the same arguments never reaches the
\* copy loop, makes no copy, leaves the target as it is, and can only end by
\* halting at the target-empty check.
C8_SecondRunHaltsAfterCopy ==
    (run > 1 /\ prev.outcome = "done" /\ prev.apply /\ prev.copied > 0) =>
        /\ acted = <<>>
        /\ target = initTarget
        /\ pc \notin {"copy", "done", "aborted"}
        /\ pc = "halted" => msg = 4

\* C8 witness: the second run has halted at the target-empty check after a
\* first run that copied.
C8_Witness ==
    /\ run = 2
    /\ prev.outcome = "done"
    /\ prev.apply
    /\ prev.copied > 0
    /\ pc = "halted"
    /\ msg = 4

\* C9: a failed copy is the last thing the run does: it panics there, no
\* further notice or copy follows, and every file copied before is still in
\* the target with the content copied.
C9_FirstFailureAborts ==
    /\ \A i \in DOMAIN acted :
        acted[i].what = "failed" =>
            (i = Len(acted) /\ pc = "aborted" /\ reason = "copy")
    /\ \A i \in DOMAIN acted :
        acted[i].what = "copied" =>
            /\ acted[i].name \in DOMAIN target
            /\ target[acted[i].name] = Content(acted[i].path)
    /\ (pc = "aborted" /\ reason = "copy") =>
            (acted # <<>> /\ acted[Len(acted)].what = "failed" /\ disable_dry_run)

\* C9 witness: a copy failed after another had succeeded.
C9_Witness ==
    /\ pc = "aborted"
    /\ reason = "copy"
    /\ Len(acted) = 2
    /\ acted[1].what = "copied"
    /\ acted[1].name \in DOMAIN target

WalkErrorMet == \E p \in walked : EntryKind(p) = "walkerr"

\* C10 as stated: after an I/O error on an entry of the walk no notice is
\* emitted, no file is copied and the run does not complete normally.
C10_WalkErrorAborts ==
    WalkErrorMet => (acted = <<>> /\ pc # "done")

WalkFinished ==
    \/ pc \in {"abs_target", "check_target", "check_empty", "copy", "done"}
    \/ pc = "halted" /\ msg \in {3, 4}
    \/ pc = "aborted" /\ reason \in {"abs_target", "read_dir", "copy"}

\* C10 amended: an I/O error on an entry of the walk is dropped: the entry
\* is not inserted, the run does not panic during indexing, and when the
\* walk has finished every readable non-directory entry of the source tree
\* has been inserted.
C10_WalkErrorDropped ==
    /\ \A i \in DOMAIN inserted : EntryKind(inserted[i]) # "walkerr"
    /\ (walked # {} /\ pc = "aborted") => reason \in {"abs_target", "read_dir", "copy"}
    /\ WalkFinished =>
            {p \in Range(inserted) : p > 0} = {p \in 1 .. Len(tree) : Yielded(p)}

\* C10 witness: a run met an unreadable entry, went on, and completed after
\* a notice or a copy.
C10_Witness ==
    /\ WalkErrorMet
    /\ pc = "done"
    /\ acted # <<>>

====
